---- MODULE Spec2Model ----
(***************************************************************************)
(* The collection migration of scripts/migrate_collection.py: one          *)
(* migrate_dataset task per catalog entry under a counting semaphore, the  *)
(* transfer primitive upload_file with its retry loop, the enumeration of  *)
(* upload_files and the verification pass verify_and_reupload_files,       *)
(* against a destination artifact store and a source HTTP server that may  *)
(* answer or fail in every way the code distinguishes.                     *)
(*                                                                         *)
(* Strings are sequences of tokens.  The characters the code looks at      *)
(* ("." "/" ":" "?") are tokens of their own; every other token is a run   *)
(* of characters holding none of them.  The token "http" is the only one   *)
(* that begins with the letters http.                                      *)
(***************************************************************************)
EXTENDS Integers, Sequences, FiniteSets, TLC

VARIABLES
    flags,      \* arguments of migrate_collection (reset_stats after the confirmation prompt)
    env,        \* what the collaborators may do in this run
    catalog,    \* collection_json["collection"]
    store,      \* the destination artifact store, by alias
    permits,    \* value of the asyncio.Semaphore
    batch,      \* asyncio.gather / asyncio.run: running, aborting, aborted, completed
    t           \* one record per migrate_dataset task

vars == <<flags, env, catalog, store, permits, batch, t>>

-----------------------------------------------------------------------------
(* Program constants *)

CONCURENT_TASKS == 10

max_retries == 5

retry_delay == 5

-----------------------------------------------------------------------------
(* String helpers *)

Empty == <<>>

\* str.startswith("http")
StartsWithHttp(s) == Len(s) > 0 /\ s[1] = "http"

\* number of leading tokens of s that are in chars
RECURSIVE LeadIn(_, _)
LeadIn(s, chars) ==
    IF Len(s) > 0 /\ s[1] \in chars THEN 1 + LeadIn(Tail(s), chars) ELSE 0

\* str.lstrip("./"): every leading "." and "/" character is removed
LStripDotSlash(s) == SubSeq(s, LeadIn(s, {".", "/"}) + 1, Len(s))

\* position of the first token c in s, 0 when there is none
FirstPos(s, c) ==
    IF \E i \in 1..Len(s) : s[i] = c
    THEN CHOOSE i \in 1..Len(s) : s[i] = c /\ \A j \in 1..(i - 1) : s[j] # c
    ELSE 0

\* position of the last token c in s, 0 when there is none
LastPos(s, c) ==
    IF \E i \in 1..Len(s) : s[i] = c
    THEN CHOOSE i \in 1..Len(s) : s[i] = c /\ \A j \in (i + 1)..Len(s) : s[j] # c
    ELSE 0

\* s.split(c)[0]
BeforeFirst(s, c) == IF FirstPos(s, c) = 0 THEN s ELSE SubSeq(s, 1, FirstPos(s, c) - 1)

\* s.split(c)[-1]
AfterLast(s, c) == SubSeq(s, LastPos(s, c) + 1, Len(s))

\* s.split(c)[1]; Python raises IndexError when c does not occur
AfterFirstPiece(s, c) == BeforeFirst(SubSeq(s, FirstPos(s, c) + 1, Len(s)), c)

IsPrefix(p, s) == Len(p) <= Len(s) /\ SubSeq(s, 1, Len(p)) = p

\* pat in s
Contains(s, pat) == \E i \in 0..(Len(s) - Len(pat)) : SubSeq(s, i + 1, i + Len(pat)) = pat

\* s.replace(pat, rep), pat not empty
RECURSIVE Replace(_, _, _)
Replace(s, pat, rep) ==
    IF Len(s) = 0 THEN s
    ELSE IF IsPrefix(pat, s)
         THEN rep \o Replace(SubSeq(s, Len(pat) + 1, Len(s)), pat, rep)
         ELSE <<s[1]>> \o Replace(Tail(s), pat, rep)

ThumbnailMarker == <<".", "thumbnail", ".">>

RdfSuffix == <<"/", "rdf", ".", "yaml">>

RECURSIVE Flatten(_)
Flatten(ss) == IF Len(ss) = 0 THEN <<>> ELSE Head(ss) \o Flatten(Tail(ss))

Range(s) == {s[i] : i \in 1..Len(s)}

-----------------------------------------------------------------------------
(* Manifests.  A manifest is the dict full_manifest: a missing or empty    *)
(* field is the empty string or the empty list.  An attachment entry is a  *)
(* string or an object with a source; a weights entry may be null, and its *)
(* architecture and dependencies are absent ("none"), a string ("str") or  *)
(* an object with a source ("obj").                                        *)

Variant(kind, val) == [kind |-> kind, val |-> val]

NoVariant == Variant("none", Empty)

WeightEntry(source, architecture, dependencies) ==
    [present |-> TRUE, source |-> source,
     architecture |-> architecture, dependencies |-> dependencies]

Tensor(test_tensor, sample_tensor) ==
    [test_tensor |-> test_tensor, sample_tensor |-> sample_tensor]

EmptyManifest ==
    [type |-> "model", documentation |-> Empty, covers |-> <<>>,
     attachments |-> <<>>, weights |-> <<>>, inputs |-> <<>>, outputs |-> <<>>,
     sample_inputs |-> <<>>, sample_outputs |-> <<>>,
     test_inputs |-> <<>>, test_outputs |-> <<>>]

File(path, download_weight) == [path |-> path, w |-> download_weight]

\* faulty variant: nothing is derived from a thumbnail cover
CoverPathsNoVariant(cover) == <<cover>>

\* one cover: the cover itself, then its non-thumbnail variant
CoverPaths(cover) ==
    <<cover>> \o (IF Contains(cover, ThumbnailMarker)
                  THEN <<Replace(cover, ThumbnailMarker, <<".">>)>>
                  ELSE <<>>)

\* one weights entry: architecture, source (the weight-bearing file), dependencies
WeightFiles(file) ==
    IF ~file.present THEN <<>>
    ELSE (IF file.architecture.kind = "str"
            THEN <<File(BeforeFirst(file.architecture.val, ":"), 0)>>
          ELSE IF file.architecture.kind = "obj" /\ file.architecture.val # Empty
            THEN <<File(BeforeFirst(file.architecture.val, ":"), 0)>>
          ELSE <<>>)
         \o <<File(file.source, 1)>>
         \o (IF file.dependencies.kind = "str" /\ file.dependencies.val # Empty
               THEN <<File(AfterFirstPiece(file.dependencies.val, ":"), 0)>>
             ELSE IF file.dependencies.kind = "obj"
               THEN <<File(file.dependencies.val, 0)>>
             ELSE <<>>)

TensorPaths(file) ==
    (IF file.test_tensor # Empty THEN <<file.test_tensor>> ELSE <<>>)
    \o (IF file.sample_tensor # Empty THEN <<file.sample_tensor>> ELSE <<>>)

Plain(paths) == [i \in 1..Len(paths) |-> File(paths[i], 0)]

\* faulty variant: the test and sample lists are not uploaded
UploadFilesPlanNoLists(m) ==
    (IF m.documentation # Empty THEN <<File(m.documentation, 0)>> ELSE <<>>)
    \o Plain(Flatten([i \in 1..Len(m.covers) |-> CoverPaths(m.covers[i])]))
    \o Plain([i \in 1..Len(m.attachments) |-> m.attachments[i].source])
    \o Flatten([i \in 1..Len(m.weights) |-> WeightFiles(m.weights[i])])
    \o Plain(Flatten([i \in 1..Len(m.inputs) |-> TensorPaths(m.inputs[i])]))
    \o Plain(Flatten([i \in 1..Len(m.outputs) |-> TensorPaths(m.outputs[i])]))

\* The upload_file calls of upload_files, in the order it makes them.
UploadFilesPlan(m) ==
    (IF m.documentation # Empty THEN <<File(m.documentation, 0)>> ELSE <<>>)
    \o Plain(Flatten([i \in 1..Len(m.covers) |-> CoverPaths(m.covers[i])]))
    \o Plain([i \in 1..Len(m.attachments) |-> m.attachments[i].source])
    \o Flatten([i \in 1..Len(m.weights) |-> WeightFiles(m.weights[i])])
    \o Plain(Flatten([i \in 1..Len(m.inputs) |-> TensorPaths(m.inputs[i])]))
    \o Plain(Flatten([i \in 1..Len(m.outputs) |-> TensorPaths(m.outputs[i])]))
    \o Plain(m.sample_inputs) \o Plain(m.sample_outputs)
    \o Plain(m.test_inputs) \o Plain(m.test_outputs)

\* expected_files of verify_and_reupload_files before it is made a set
ExpectedList(m, rdf_source) ==
    <<AfterLast(rdf_source, "/")>>
    \o (IF m.documentation # Empty THEN <<m.documentation>> ELSE <<>>)
    \o Flatten([i \in 1..Len(m.covers) |-> CoverPaths(m.covers[i])])
    \o [i \in 1..Len(m.attachments) |-> m.attachments[i].source]
    \o Flatten([i \in 1..Len(m.weights) |->
                  [j \in 1..Len(WeightFiles(m.weights[i])) |-> WeightFiles(m.weights[i])[j].path]])
    \o Flatten([i \in 1..Len(m.inputs) |-> TensorPaths(m.inputs[i])])
    \o Flatten([i \in 1..Len(m.outputs) |-> TensorPaths(m.outputs[i])])
    \o m.test_inputs \o m.test_outputs \o m.sample_inputs \o m.sample_outputs

\* faulty variant: the manifest document is not among the expected files
ExpectedFilesNoRdf(m, rdf_source) ==
    {LStripDotSlash(f) : f \in {g \in Range(ExpectedList(m, rdf_source)) : g # Empty}}
        \ {AfterLast(rdf_source, "/")}

\* faulty variant: only the first cover is expected
ExpectedFilesFirstCover(m, rdf_source) ==
    {LStripDotSlash(f) :
        f \in {g \in Range(ExpectedList([m EXCEPT !.covers = SubSeq(@, 1, 1)], rdf_source)) :
                  g # Empty}}

\* list(set([f.lstrip("./") for f in expected_files if f]))
ExpectedFiles(m, rdf_source) ==
    {LStripDotSlash(f) : f \in {g \in Range(ExpectedList(m, rdf_source)) : g # Empty}}

\* download_weight of a re-upload: 1 when the path occurs in some weights source
ReuploadWeight(m, file_path) ==
    IF \E i \in 1..Len(m.weights) :
          m.weights[i].present /\ Contains(m.weights[i].source, file_path)
    THEN 1 ELSE 0

-----------------------------------------------------------------------------
(* Catalog entries *)

\* the item has no "nickname" key
NoNickname == <<"<no nickname>">>

\* item.get("nickname", item.get("id")).replace("/", ":")
DatasetId(item) ==
    Replace(IF item.nickname # NoNickname THEN item.nickname ELSE item.id,
            <<"/">>, <<":">>)

\* item["rdf_source"].replace("/rdf.yaml", "")
BaseUrl(item) == Replace(item.rdf_source, RdfSuffix, <<>>)

\* download_manifest(item["rdf_source"]): the document the source serves there
\* (the model keeps it with the entry)
ManifestOf(item) == item.manifest

Entries == 1..Len(catalog)

-----------------------------------------------------------------------------
(* The frame of one upload_file call *)

NoFrame ==
    [raw |-> Empty, path |-> Empty, urlname |-> Empty, isUrl |-> FALSE, w |-> 0,
     upc |-> "none", retries |-> 0, gets |-> 0, probe |-> "none", putfile |-> FALSE,
     putfiles |-> 0, uploads |-> 0, statuses |-> {}, sleeps |-> <<>>]

\* faulty variant: upload_file that asks for the upload URL without probing first
NewFrameNoProbe(raw, download_weight) ==
    LET p == LStripDotSlash(raw)
    IN  [raw |-> raw, path |-> p, urlname |-> Empty, isUrl |-> FALSE,
         w |-> download_weight, upc |-> "put_file",
         retries |-> 0, gets |-> 0, probe |-> "none", putfile |-> FALSE,
         putfiles |-> 0, uploads |-> 0, statuses |-> {}, sleeps |-> <<>>]

\* upload_file up to its first await: the path is stripped, and a path that is
\* a URL is collapsed to its file name (the URL is kept for get_file/remove_file)
NewFrame(raw, download_weight) ==
    LET p == LStripDotSlash(raw)
        isUrl == StartsWithHttp(p)
    IN  [raw |-> raw,
         path |-> IF isUrl THEN AfterLast(BeforeFirst(p, "?"), "/") ELSE p,
         urlname |-> IF isUrl THEN p ELSE Empty,
         isUrl |-> isUrl, w |-> download_weight,
         upc |-> IF isUrl THEN "url_get" ELSE "probe",
         retries |-> 0, gets |-> 0, probe |-> "none", putfile |-> FALSE,
         putfiles |-> 0, uploads |-> 0, statuses |-> {}, sleeps |-> <<>>]

\* the locals of verify_and_reupload_files; an issue is the string the code
\* appends: its prefix and the path it names
NoVerify == [remaining |-> {}, missing |-> <<>>, mi |-> 0, total |-> 0, issues |-> <<>>]

\* faulty variant: an issue string that does not name its path
IssueNoPath(prefix, path) == [prefix |-> prefix, path |-> Empty]

Issue(prefix, path) == [prefix |-> prefix, path |-> path]

\* the upload_file call that returned before the current one: its argument, its result
NoPrev == [raw |-> Empty, res |-> "none"]

\* the upload_file call that has just returned (kept until the task's next step):
\* its argument and result, what its probe said, whether it called put_file, its
\* download attempts, the statuses the source answered, the attempts that raised,
\* the delays it slept, and the call before it
NoLast == [raw |-> Empty, res |-> "none", probe |-> "none", putfile |-> FALSE,
           putfiles |-> 0, uploads |-> 0, gets |-> 0, statuses |-> {}, retries |-> 0, sleeps |-> <<>>,
           before |-> NoPrev]

NewTask ==
    [pc |-> "wait", fi |-> 0, inv |-> NoFrame, ver |-> NoVerify, calls |-> {},
     creates |-> 0, fetched |-> "none",
     outcome |-> "none", found |-> "none", rdfFailed |-> FALSE, prev |-> NoPrev,
     last |-> NoLast]

Ended == {"done", "raised", "cancelled"}

Holding(tr) == tr.pc \notin (Ended \cup {"wait"})

InUpload == {"rdf", "files", "reupload"}

\* the task makes the call `name`
Called(tr, name) == [tr EXCEPT !.calls = @ \cup {name}, !.last = NoLast]

-----------------------------------------------------------------------------
(* The destination store *)

NoRecord == [exists |-> FALSE, staged |-> FALSE, committed |-> FALSE, files |-> {}]

\* artifact_manager.get_file / read: found ("ok") only when it is there; the call
\* raises when it is not there ("missing") and may raise for any other reason
\* ("error"); the code sees an exception in both cases
Lookup(present) ==
    (IF present THEN {"ok"} ELSE {"missing"}) \cup (IF env.store_errors THEN {"error"} ELSE {})

\* every other store call
StoreCall == {"ok"} \cup (IF env.store_errors THEN {"raise"} ELSE {})

\* faulty variant: an upload answered 200 that leaves nothing at the destination
StoredNothing(files, path) == files

\* the files of the artifact after the upload PUT of `path` was answered 200
Stored(files, path) == files \cup {path}

\* faulty variant: remove_file that empties the artifact
RemovedAll(files, name) == {}

\* the files of the artifact after remove_file(name) returned
Removed(files, name) == files \ {name}

\* status of the source GET: a response, or an exception (timeout, connection error)
GetOutcomes ==
    {"200"} \cup (IF env.source_errors THEN {"429", "404", "500", "timeout"} ELSE {})

\* download_manifest: the parsed document, or any failure
ManifestOutcomes == {TRUE} \cup (IF env.source_errors THEN {FALSE} ELSE {})

\* status of the upload PUT (the upload URL points into the destination store)
PutOutcomes == {"200"} \cup (IF env.store_errors THEN {"403", "timeout"} ELSE {})

-----------------------------------------------------------------------------
(* migrate_dataset: where a task goes on after each await *)

\* faulty variant: an existing record is created again although skip_migrated is set
AfterVerifyRecreate(tr) == [tr EXCEPT !.pc = "create"]

\* lines 505-510: an existing record is left alone when skip_migrated is set
AfterVerify(tr) ==
    IF flags.skip_migrated
    THEN [tr EXCEPT !.pc = "done",
                    !.outcome = IF flags.verify_files THEN "Verified" ELSE "Skipped"]
    ELSE [tr EXCEPT !.pc = "create"]

\* lines 493-503, and verify_and_reupload_files up to its first get_file
EnterVerify(e, tr) ==
    LET expected == ExpectedFiles(ManifestOf(catalog[e]), catalog[e].rdf_source)
    IN  IF ~flags.verify_files \/ expected = {}
        THEN AfterVerify(tr)
        ELSE [tr EXCEPT !.pc = "verify",
                        !.ver = [NoVerify EXCEPT !.remaining = expected,
                                                 !.total = Cardinality(expected)]]

\* faulty variant: the record is never edited
AfterResetNoEdit(e, tr) == EnterVerify(e, tr)

\* faulty variant: the record is edited whether or not edit_existing is set
AfterResetEdits(e, tr) == [tr EXCEPT !.pc = "edit"]

\* lines 485-490
AfterReset(e, tr) ==
    IF flags.edit_existing THEN [tr EXCEPT !.pc = "edit"] ELSE EnterVerify(e, tr)

\* lines 478-484
AfterRead(e, tr) ==
    IF flags.reset_stats THEN [tr EXCEPT !.pc = "reset"] ELSE AfterReset(e, tr)

\* upload_files up to the first await of its first upload_file
StartFiles(e, tr) ==
    LET plan == UploadFilesPlan(ManifestOf(catalog[e]))
    IN  IF Len(plan) = 0
        THEN [tr EXCEPT !.pc = "commit"]
        ELSE [tr EXCEPT !.pc = "files", !.fi = 1,
                        !.inv = NewFrame(plan[1].path, plan[1].w)]

\* faulty variant: upload_files stops after its first upload_file
MoreFilesNever(i, plan) == FALSE

\* upload_files has a further upload_file call to make after call i
MoreFiles(i, plan) == i < Len(plan)

\* upload_file has returned (present, uploaded, failed) or raised: the caller
\* goes on.  The call at line 526 is not guarded, upload_files is (543-545),
\* a re-upload is (336-339).
AfterUpload(e, tr, res) ==
    LET m == ManifestOf(catalog[e])
        plan == UploadFilesPlan(m)
        tr1 == [tr EXCEPT !.inv = NoFrame,
                          !.prev = [raw |-> tr.inv.raw, res |-> res],
                          !.last = [raw |-> tr.inv.raw, res |-> res,
                                    probe |-> tr.inv.probe, putfile |-> tr.inv.putfile,
                                    putfiles |-> tr.inv.putfiles,
                                    uploads |-> tr.inv.uploads,
                                    gets |-> tr.inv.gets, statuses |-> tr.inv.statuses,
                                    retries |-> tr.inv.retries, sleeps |-> tr.inv.sleeps,
                                    before |-> tr.prev]]
    IN  CASE tr.pc = "rdf" ->
               IF res = "raise"
               THEN [tr1 EXCEPT !.pc = "raised"]
               ELSE StartFiles(e, [tr1 EXCEPT !.rdfFailed = (res = "failed")])
          [] tr.pc = "files" ->
               IF res = "raise"
               THEN [tr1 EXCEPT !.pc = "done", !.outcome = "Failed"]
               ELSE IF MoreFiles(tr.fi, plan)
               THEN [tr1 EXCEPT !.fi = tr.fi + 1,
                                !.inv = NewFrame(plan[tr.fi + 1].path, plan[tr.fi + 1].w)]
               ELSE [tr1 EXCEPT !.pc = "commit"]
          [] OTHER ->
               LET tr2 == [tr1 EXCEPT !.ver.issues =
                                   IF res = "raise"
                                   THEN Append(@, Issue("Failed to re-upload", tr.inv.raw))
                                   ELSE @]
               IN  IF tr.ver.mi < Len(tr.ver.missing)
                   THEN [tr2 EXCEPT !.ver.mi = tr.ver.mi + 1,
                                    !.inv = NewFrame(tr.ver.missing[tr.ver.mi + 1],
                                                     ReuploadWeight(m, tr.ver.missing[tr.ver.mi + 1]))]
                   ELSE AfterVerify(tr2)

\* one step of task e: its record and the store change; a task that ends
\* leaves the semaphore; an exception that leaves the task reaches gather
TaskStep(e, tr2, store2) ==
    /\ t' = [t EXCEPT ![e] = tr2]
    /\ store' = store2
    /\ permits' = IF tr2.pc \in Ended THEN permits + 1 ELSE permits
    /\ batch' = IF tr2.pc = "raised" /\ batch = "running" THEN "aborting" ELSE batch
    /\ UNCHANGED <<flags, env, catalog>>

Running == batch \in {"running", "aborting"}

-----------------------------------------------------------------------------
(* The actions of a task *)

\* faulty variant: a semaphore that never blocks
FreeAlways(value) == TRUE

\* asyncio.Semaphore: not locked
Free(value) == value > 0

\* async with semaphore: gather starts the tasks in the order of the list, and
\* the semaphore wakes its waiters first in, first out
Acquire(e) ==
    /\ Running
    /\ t[e].pc = "wait"
    /\ \A e2 \in Entries : e2 < e => t[e2].pc # "wait"
    /\ Free(permits)
    /\ t' = [t EXCEPT ![e].pc = "manifest"]
    /\ permits' = permits - 1
    /\ UNCHANGED <<flags, env, catalog, store, batch>>

\* faulty variant: the task goes on without a manifest
AfterManifestGoesOn(tr, ok) ==
    [tr EXCEPT !.pc = "read", !.fetched = IF ok THEN "yes" ELSE "no"]

\* lines 466-471: the task returns when download_manifest raised or gave nothing
AfterManifest(tr, ok) ==
    IF ok THEN [tr EXCEPT !.pc = "read", !.fetched = "yes"]
    ELSE [tr EXCEPT !.pc = "done", !.outcome = "Failed", !.fetched = "no"]

\* lines 463-472
DownloadManifest(e) ==
    /\ Running
    /\ t[e].pc = "manifest"
    /\ \E ok \in ManifestOutcomes :
         TaskStep(e, AfterManifest(Called(t[e], "manifest"), ok), store)

\* lines 474-477: any exception of read counts as "no such record"
ReadArtifact(e) ==
    /\ Running
    /\ t[e].pc = "read"
    /\ \E r \in Lookup(store[DatasetId(catalog[e])].exists) :
         LET tr == Called(t[e], "read")
         IN  TaskStep(e, IF r = "ok"
                         THEN AfterRead(e, [tr EXCEPT !.found = "found"])
                         ELSE [tr EXCEPT !.found = "absent", !.pc = "create"],
                      store)

\* line 484
ResetStats(e) ==
    /\ Running
    /\ t[e].pc = "reset"
    /\ \E r \in StoreCall :
         LET tr == Called(t[e], "reset_stats")
         IN  TaskStep(e, IF r = "ok" THEN AfterReset(e, tr) ELSE [tr EXCEPT !.pc = "raised"],
                      store)

\* lines 486-490
EditArtifact(e) ==
    /\ Running
    /\ t[e].pc = "edit"
    /\ \E r \in StoreCall :
         LET tr == Called(t[e], "edit")
         IN  TaskStep(e, IF r = "ok" THEN EnterVerify(e, tr) ELSE [tr EXCEPT !.pc = "raised"],
                      store)

\* lines 319-326 and, after the last probe, 329-334 or 341
VerifyProbe(e) ==
    /\ Running
    /\ t[e].pc = "verify"
    /\ \E f \in t[e].ver.remaining :
       \E r \in Lookup(f \in store[DatasetId(catalog[e])].files) :
         LET tr == Called(t[e], "get_file")
             missing == IF r = "ok" THEN tr.ver.missing ELSE Append(tr.ver.missing, f)
             issues == IF r = "ok" THEN tr.ver.issues
                       ELSE Append(tr.ver.issues, Issue("Missing file", f))
             v == [tr.ver EXCEPT !.remaining = @ \ {f}, !.missing = missing,
                                 !.issues = issues]
             tr1 == [tr EXCEPT !.ver = v]
         IN  TaskStep(e,
                 IF v.remaining # {} THEN tr1
                 ELSE IF Len(missing) = 0 THEN AfterVerify(tr1)
                 ELSE [tr1 EXCEPT !.pc = "reupload", !.ver.mi = 1,
                                  !.inv = NewFrame(missing[1],
                                                   ReuploadWeight(ManifestOf(catalog[e]), missing[1]))],
                 store)

\* lines 512-519; line 526 up to its first await
CreateArtifact(e) ==
    /\ Running
    /\ t[e].pc = "create"
    /\ \E r \in StoreCall :
         LET tr == [Called(t[e], "create") EXCEPT !.creates = @ + 1]
             id == DatasetId(catalog[e])
         IN  IF r = "ok"
             THEN TaskStep(e, [tr EXCEPT !.pc = "rdf",
                                         !.inv = NewFrame(catalog[e].rdf_source, 0)],
                           [store EXCEPT ![id].exists = TRUE, ![id].staged = TRUE])
             ELSE TaskStep(e, [tr EXCEPT !.pc = "raised"], store)

\* faulty variant: the exception of commit leaves the task
AfterCommitRaises(tr, r) ==
    IF r = "ok" THEN [tr EXCEPT !.pc = "done", !.outcome = "Committed"]
    ELSE [tr EXCEPT !.pc = "raised"]

\* lines 549-552: the task ends after the commit, whether it returned or raised
AfterCommit(tr, r) ==
    IF r = "ok" THEN [tr EXCEPT !.pc = "done", !.outcome = "Committed"]
    ELSE [tr EXCEPT !.pc = "done", !.outcome = "Failed"]

\* lines 547-552
CommitArtifact(e) ==
    /\ Running
    /\ t[e].pc = "commit"
    /\ \E r \in StoreCall :
         LET tr == Called(t[e], "commit")
             id == DatasetId(catalog[e])
         IN  TaskStep(e, AfterCommit(tr, r),
                      IF r = "ok"
                      THEN [store EXCEPT ![id].staged = FALSE, ![id].committed = TRUE]
                      ELSE store)

-----------------------------------------------------------------------------
(* upload_file, one action per await *)

\* faulty variant: the same delay after every failed attempt, the last included
BackoffFlat(retries) == <<retry_delay>>

\* lines 173-174: the delays slept after the attempt that made it `retries`
Backoff(retries) ==
    IF retries < max_retries THEN <<retry_delay * retries>> ELSE <<>>

\* faulty variant: every answer but 200 is tried again
RetriedUnless200(r) == r # "200"

\* lines 168-171: what of a GET leads to another attempt: an exception
\* (httpx.ReadTimeout or any other), never a response
Retried(r) == r = "timeout"

\* faulty variant: a loop that makes one attempt more
WhileRetriesOnceMore(retries) == retries <= max_retries

\* line 147: the condition of the retry loop
WhileRetries(retries) == retries < max_retries

\* lines 172-175: the attempt raised; retry while attempts are left
AfterException(e, tr, st) ==
    LET tr1 == [tr EXCEPT !.inv.retries = @ + 1,
                          !.inv.sleeps = @ \o Backoff(tr.inv.retries + 1)]
    IN  IF WhileRetries(tr1.inv.retries)
        THEN TaskStep(e, [tr1 EXCEPT !.inv.upc = "get"], st)
        ELSE TaskStep(e, AfterUpload(e, tr1, "failed"), st)

\* lines 118-122: a path given as a URL; is a file stored under the URL?
UrlGetFile(e) ==
    /\ Running
    /\ t[e].pc \in InUpload /\ t[e].inv.upc = "url_get"
    /\ \E r \in Lookup(t[e].inv.urlname \in store[DatasetId(catalog[e])].files) :
         LET tr == Called(t[e], "get_file")
         IN  TaskStep(e, [tr EXCEPT !.inv.upc = IF r = "ok" THEN "url_remove" ELSE "probe"],
                      store)

\* lines 124-130: remove the file stored under the URL
UrlRemoveFile(e) ==
    /\ Running
    /\ t[e].pc \in InUpload /\ t[e].inv.upc = "url_remove"
    /\ \E r \in StoreCall :
         LET tr == Called(t[e], "remove_file")
             id == DatasetId(catalog[e])
         IN  TaskStep(e, [tr EXCEPT !.inv.upc = "probe"],
                      IF r = "ok" THEN [store EXCEPT ![id].files = Removed(@, tr.inv.urlname)]
                                  ELSE store)

\* lines 132-140: the existence probe
ProbeFile(e) ==
    /\ Running
    /\ t[e].pc \in InUpload /\ t[e].inv.upc = "probe"
    /\ \E r \in Lookup(t[e].inv.path \in store[DatasetId(catalog[e])].files) :
         LET tr == Called(t[e], "get_file")
         IN  TaskStep(e, IF r = "ok"
                         THEN AfterUpload(e, [tr EXCEPT !.inv.probe = "present"], "present")
                         ELSE [tr EXCEPT !.inv.probe = IF r = "missing" THEN "absent" ELSE "error",
                                         !.inv.upc = "put_file"],
                      store)

\* lines 141-146: the upload URL; the call is not guarded
PutFile(e) ==
    /\ Running
    /\ t[e].pc \in InUpload /\ t[e].inv.upc = "put_file"
    /\ \E r \in StoreCall :
         LET tr == [Called(t[e], "put_file") EXCEPT !.inv.putfile = TRUE,
                                                    !.inv.putfiles = @ + 1]
         IN  TaskStep(e, IF r = "ok" THEN [tr EXCEPT !.inv.upc = "get"]
                                     ELSE AfterUpload(e, tr, "raise"),
                      store)

\* lines 149-151, 165-171: the source GET of one attempt
GetSource(e) ==
    /\ Running
    /\ t[e].pc \in InUpload /\ t[e].inv.upc = "get"
    /\ \E r \in GetOutcomes :
         LET tr == [Called(t[e], "GET") EXCEPT
                        !.inv.gets = @ + 1,
                        !.inv.statuses = IF r = "timeout" THEN @ ELSE @ \cup {r}]
         IN  CASE Retried(r) -> AfterException(e, tr, store)
               [] r = "200" /\ ~Retried(r) -> TaskStep(e, [tr EXCEPT !.inv.upc = "put"], store)
               [] OTHER -> TaskStep(e, AfterUpload(e, tr, "failed"), store)

\* lines 152-164, 168-171: the upload PUT of the attempt; `response` is the
\* GET response, whose status is 200 here
PutUpload(e) ==
    /\ Running
    /\ t[e].pc \in InUpload /\ t[e].inv.upc = "put"
    /\ \E r \in PutOutcomes :
         LET tr == Called(t[e], "PUT")
             id == DatasetId(catalog[e])
             response == "200"
         IN  CASE r = "200" ->
                    TaskStep(e, AfterUpload(e, [tr EXCEPT !.inv.uploads = @ + 1], "uploaded"),
                             [store EXCEPT ![id].files = Stored(@, tr.inv.path)])
               [] r = "timeout" -> AfterException(e, tr, store)
               [] OTHER ->
                    IF response = "429"
                    THEN AfterException(e, tr, store)
                    ELSE TaskStep(e, AfterUpload(e, tr, "failed"), store)

-----------------------------------------------------------------------------
(* The batch: asyncio.gather under asyncio.run *)

\* gather has passed a task's exception on: migrate_collection ends with it and
\* asyncio.run cancels every task that has not ended
CancelAll ==
    /\ batch = "aborting"
    /\ batch' = "aborted"
    /\ t' = [e \in Entries |->
               IF t[e].pc \in Ended THEN t[e]
               ELSE [t[e] EXCEPT !.pc = "cancelled", !.inv = NoFrame]]
    /\ permits' = permits + Cardinality({e \in Entries : Holding(t[e])})
    /\ UNCHANGED <<flags, env, catalog, store>>

\* line 560: every task has returned
Complete ==
    /\ batch = "running"
    /\ \A e \in Entries : t[e].pc = "done"
    /\ batch' = "completed"
    /\ UNCHANGED <<flags, env, catalog, store, permits, t>>

-----------------------------------------------------------------------------
(* The next-state relation *)

Next ==
    \/ \E e \in Entries : Acquire(e)
    \/ \E e \in Entries : DownloadManifest(e)
    \/ \E e \in Entries : ReadArtifact(e)
    \/ \E e \in Entries : ResetStats(e)
    \/ \E e \in Entries : EditArtifact(e)
    \/ \E e \in Entries : VerifyProbe(e)
    \/ \E e \in Entries : CreateArtifact(e)
    \/ \E e \in Entries : UrlGetFile(e)
    \/ \E e \in Entries : UrlRemoveFile(e)
    \/ \E e \in Entries : ProbeFile(e)
    \/ \E e \in Entries : PutFile(e)
    \/ \E e \in Entries : GetSource(e)
    \/ \E e \in Entries : PutUpload(e)
    \/ \E e \in Entries : CommitArtifact(e)
    \/ CancelAll
    \/ Complete

-----------------------------------------------------------------------------
(* The runs that are checked *)

RdfUrl(n) == <<"http", ":", "/", "/", "s", "/", n>> \o RdfSuffix

Readme == <<"README", ".", "md">>

CoverPng == <<"c", ".", "png">>

\* documentation and an attachment that is the same file
ManifestA ==
    [EmptyManifest EXCEPT !.documentation = Readme,
                          !.attachments = <<[isStr |-> TRUE, source |-> Readme]>>]

ManifestB == [EmptyManifest EXCEPT !.covers = <<CoverPng>>]

ItemA == [nickname |-> <<"shark">>, id |-> <<"z", "/", "1">>,
          rdf_source |-> RdfUrl("1"), manifest |-> ManifestA]

ItemB == [nickname |-> NoNickname, id |-> <<"z", "/", "2">>,
          rdf_source |-> RdfUrl("2"), manifest |-> ManifestB]

\* an id that differs from the id of ItemB only by ":" for "/"
ItemC == [nickname |-> NoNickname, id |-> <<"z", ":", "2">>,
          rdf_source |-> RdfUrl("3"), manifest |-> EmptyManifest]

ItemD == [nickname |-> NoNickname, id |-> <<"z", "/", "4">>,
          rdf_source |-> RdfUrl("4"), manifest |-> EmptyManifest]

Ids(cat) == {DatasetId(cat[e]) : e \in 1..Len(cat)}

WithId(cat, id) == {e \in 1..Len(cat) : DatasetId(cat[e]) = id}

\* the names under which a migration of the entries with this id stores files
Names(cat, id) ==
    UNION {ExpectedFiles(ManifestOf(cat[e]), cat[e].rdf_source) : e \in WithId(cat, id)}

\* files an earlier run stored under the URL they came from
Legacy(cat, id) == {cat[e].rdf_source : e \in WithId(cat, id)}

MaxMissing == 1

\* a record an earlier run left: committed, at most MaxMissing files missing
EarlierRecords(cat, id) ==
    {[exists |-> TRUE, staged |-> FALSE, committed |-> TRUE, files |-> present \cup legacy] :
        present \in {F \in SUBSET Names(cat, id) :
                        Cardinality(Names(cat, id) \ F) <= MaxMissing},
        legacy \in SUBSET Legacy(cat, id)}

\* a record an earlier run left with every file
Migrated(cat, id) ==
    [exists |-> TRUE, staged |-> FALSE, committed |-> TRUE, files |-> Names(cat, id)]

AllFlags ==
    [skip_migrated : BOOLEAN, edit_existing : BOOLEAN,
     reset_stats : BOOLEAN, verify_files : BOOLEAN]

\* the call the script makes (line 563)
ScriptFlags ==
    [skip_migrated |-> TRUE, edit_existing |-> FALSE,
     reset_stats |-> FALSE, verify_files |-> FALSE]

\* faulty variant: whatever is typed at the prompt confirms
ConfirmedAlways(requested, confirmation) == requested

\* lines 347-368: reset_stats stays set only when the operator types "reset-stats"
Confirmed(requested, confirmation) == requested /\ confirmation = "reset-stats"

\* what is fixed by the run: the tasks wait for the semaphore, gather is running
Started ==
    /\ permits = CONCURENT_TASKS
    /\ batch = "running"
    /\ t = [e \in 1..Len(catalog) |-> NewTask]

\* one entry, every combination of the arguments, every earlier state of its
\* record (with reset_stats: no record, or the record with every file)
InitSolo ==
    /\ \E requested \in AllFlags, confirmation \in {"reset-stats", "no"} :
         flags = [requested EXCEPT !.reset_stats = Confirmed(@, confirmation)]
    /\ env = [store_errors |-> TRUE, source_errors |-> TRUE]
    /\ catalog = <<ItemA>>
    /\ store \in [Ids(catalog) -> {NoRecord} \cup EarlierRecords(catalog, DatasetId(ItemA))]
    /\ flags.reset_stats =>
          store[DatasetId(ItemA)] \in {NoRecord, Migrated(catalog, DatasetId(ItemA))}
    /\ Started

\* two entries at once, with different or with colliding identifiers, run as the
\* script runs them, on a destination that is empty or holds the first record;
\* the store may fail, the source answers
InitPair ==
    /\ flags = ScriptFlags
    /\ env = [store_errors |-> TRUE, source_errors |-> FALSE]
    /\ catalog \in {<<ItemB, ItemD>>, <<ItemB, ItemC>>}
    /\ store \in {[id \in Ids(catalog) |-> NoRecord],
                  [id \in Ids(catalog) |->
                      IF id = DatasetId(ItemB) THEN Migrated(catalog, id) ELSE NoRecord]}
    /\ Started

\* a cover that the manifest names by a URL
UrlCover == <<"http", ":", "/", "/", "h", "/", "c", ".", "png">>

ItemU == [nickname |-> <<"urchin">>, id |-> <<"z", "/", "5">>,
          rdf_source |-> RdfUrl("5"),
          manifest |-> [EmptyManifest EXCEPT !.covers = <<UrlCover>>]]

\* one entry with a file named by a URL, verified or migrated again, on a record
\* that holds any of: the manifest document, the cover under its file name, the
\* cover under its URL; the store may fail, the source answers
InitUrl ==
    /\ flags \in {[ScriptFlags EXCEPT !.verify_files = TRUE],
                  [ScriptFlags EXCEPT !.skip_migrated = FALSE]}
    /\ env = [store_errors |-> TRUE, source_errors |-> FALSE]
    /\ catalog = <<ItemU>>
    /\ \E files \in SUBSET {AfterLast(ItemU.rdf_source, "/"), CoverPng, UrlCover} :
         store = [id \in Ids(catalog) |->
                     [exists |-> TRUE, staged |-> FALSE, committed |-> TRUE,
                      files |-> files]]
    /\ Started

Init == InitSolo \/ InitPair \/ InitUrl

Spec == Init /\ [][Next]_vars

-----------------------------------------------------------------------------
(* More entries than semaphore slots: the script's run over a collection    *)
(* that is already migrated, on a store that answers every call.            *)

CapExtra == 1

Unary(n) == [k \in 1..n |-> "i"]

CapItem(n) == [nickname |-> NoNickname, id |-> <<"z", "/">> \o Unary(n),
               rdf_source |-> RdfUrl("c") , manifest |-> EmptyManifest]

CapCatalog == [n \in 1..(CONCURENT_TASKS + CapExtra) |-> CapItem(n)]

InitCap ==
    /\ flags = ScriptFlags
    /\ env = [store_errors |-> FALSE, source_errors |-> FALSE]
    /\ catalog = CapCatalog
    /\ store = [id \in Ids(catalog) |-> Migrated(catalog, id)]
    /\ Started

NextCap ==
    \/ \E e \in Entries : Acquire(e)
    \/ \E e \in Entries : DownloadManifest(e)
    \/ \E e \in Entries : ReadArtifact(e)
    \/ Complete

SpecCap == InitCap /\ [][NextCap]_vars

-----------------------------------------------------------------------------
(* Claims *)

Plan(e) == UploadFilesPlan(ManifestOf(catalog[e]))

Transfers == {"put_file", "GET", "PUT"}

Raised(probe) == probe \in {"absent", "error"}

\* C1: in every upload_file call the existence probe (get_file on the
\* normalized path) comes before put_file, the source GET and the upload PUT:
\* these happen only after the probe raised, and a call whose probe found the
\* file returns without any of them.
C1_ProbeBeforeTransfer ==
    \A e \in Entries :
        /\ t[e].inv.upc \in {"put_file", "get", "put"} => Raised(t[e].inv.probe)
        /\ t[e].inv.probe \in {"none", "present"} =>
              ~t[e].inv.putfile /\ t[e].inv.gets = 0 /\ t[e].inv.statuses = {}
        /\ t[e].last.res \in {"uploaded", "failed", "raise"} => Raised(t[e].last.probe)
        /\ t[e].last.probe = "present" =>
              /\ t[e].last.res = "present"
              /\ ~t[e].last.putfile /\ t[e].last.gets = 0 /\ t[e].last.statuses = {}

\* a call that transferred after its probe raised has returned
C1_Witness ==
    \E e \in Entries : t[e].last.res = "uploaded" /\ t[e].last.probe = "absent"

InFlight == {e \in Entries : Holding(t[e])}

\* C3: at most CONCURENT_TASKS tasks are past the semaphore and not ended,
\* the semaphore counts them, and a task that waits for the semaphore has made
\* no manifest fetch and no store call.
C3_ConcurrencyCap ==
    /\ Cardinality(InFlight) <= CONCURENT_TASKS
    /\ permits = CONCURENT_TASKS - Cardinality(InFlight)
    /\ \A e \in Entries : t[e].pc = "wait" => t[e].calls = {}

\* every slot is taken while an entry waits, one holder awaits the manifest fetch
\* and another one the read of the store
C3_Witness ==
    /\ Cardinality(InFlight) = CONCURENT_TASKS
    /\ \E e \in Entries : t[e].pc = "wait"
    /\ \E e \in Entries : t[e].pc = "manifest"
    /\ \E e \in Entries : t[e].pc = "read" /\ "manifest" \in t[e].calls

\* C4 (as stated): a failing destination call of one entry is caught inside its
\* task: no exception leaves a task, gather passes none on, no task is cancelled.
C4_FailureIsolated ==
    /\ batch \in {"running", "completed"}
    /\ \A e \in Entries : t[e].pc \notin {"raised", "cancelled"}

\* C5 (as stated): a call that failed while every answer of the source was 429
\* has made exactly max_retries download attempts.
C5_RetriesOn429 ==
    \A e \in Entries :
        (t[e].last.res = "failed" /\ t[e].last.statuses = {"429"})
            => t[e].last.gets = max_retries

\* C6 (as stated): a task that started on its enumerated files and ended by
\* itself has attempted every one of them and has attempted the commit.
C6_FailedFileDoesNotAbort ==
    \A e \in Entries :
        (t[e].pc = "done" /\ t[e].fi >= 1)
            => t[e].fi = Len(Plan(e)) /\ "commit" \in t[e].calls

\* C7 (as stated): after a failed upload of the manifest document the task
\* makes no further transfer, never calls commit, and ends as Failed.
C7_NoCommitWithoutManifest ==
    \A e \in Entries :
        t[e].rdfFailed =>
            /\ "commit" \notin t[e].calls
            /\ t[e].pc \notin {"files", "commit"}
            /\ t[e].pc = "done" => t[e].outcome = "Failed"

\* C8 (as stated): create precedes every transfer of the task, commit comes
\* after every upload_file call has returned, nothing follows the commit.
C8_CreateBeforeEveryTransfer ==
    \A e \in Entries :
        /\ t[e].calls \cap Transfers # {} => t[e].creates >= 1
        /\ t[e].pc = "commit" => t[e].fi = Len(Plan(e)) /\ t[e].inv = NoFrame
        /\ "commit" \in t[e].calls => t[e].pc = "done" /\ t[e].inv = NoFrame

\* C8 (amended): create precedes the upload of the manifest document and every
\* upload_file call of upload_files (the re-uploads of the verification pass come
\* before it); commit is called only after the manifest-document upload and the
\* call for every enumerated file have returned; the task ends with the commit.
C8_MigrationOrdered ==
    \A e \in Entries :
        /\ t[e].pc \in {"rdf", "files", "commit"} => t[e].creates = 1
        /\ t[e].pc \in {"wait", "manifest", "read", "reset", "edit", "verify", "reupload", "create"}
              => t[e].creates = 0 /\ t[e].fi = 0
        /\ t[e].pc = "commit" => t[e].fi = Len(Plan(e)) /\ t[e].inv = NoFrame
        /\ "commit" \in t[e].calls => t[e].pc = "done" /\ t[e].inv = NoFrame

\* a record with two enumerated files has been committed
C8_Witness ==
    \E e \in Entries :
        t[e].outcome = "Committed" /\ t[e].fi = 2 /\ "PUT" \in t[e].calls

SkipOnly == flags.skip_migrated /\ ~flags.edit_existing /\ ~flags.verify_files

C10_CreateOnlyWhenAbsent ==
    \A e \in Entries :
        (t[e].pc = "create" \/ t[e].creates > 0) => t[e].found = "absent"

\* C10 (amended): a task calls create at most once, and only when its existence
\* check found no record or skip_migrated is not set; with skip_migrated set an
\* existing record is never created again.
C10_CreateWhenAbsentOrNotSkipping ==
    \A e \in Entries :
        /\ t[e].creates <= 1
        /\ (t[e].pc = "create" \/ t[e].creates > 0)
              => (t[e].found = "absent" \/ ~flags.skip_migrated)

\* an existing record has been created again
C10_Witness ==
    \E e \in Entries :
        t[e].creates = 1 /\ t[e].found = "found" /\ ~flags.skip_migrated

\* the task is past the place of the edit call (lines 485-490)
PastEdit(tr) == tr.pc \in {"verify", "reupload", "create", "rdf", "files", "commit", "done"}

C12_ServerErrorRetried ==
    \A e \in Entries :
        (t[e].last.res = "failed" /\ "500" \in t[e].last.statuses)
            => t[e].last.gets = max_retries

\* the delays retry_delay x 1, ..., retry_delay x n
Delays(n) == [k \in 1..n |-> retry_delay * k]

C14_NotFoundEndsTransfer ==
    \A e \in Entries :
        /\ t[e].inv.upc # "none" => "404" \notin t[e].inv.statuses
        /\ t[e].inv.upc = "put" => "200" \in t[e].inv.statuses
        /\ "404" \in t[e].last.statuses =>
              /\ t[e].last.res = "failed"
              /\ t[e].last.gets = t[e].last.retries + 1
              /\ Len(t[e].last.sleeps) = t[e].last.retries
        /\ (t[e].last.statuses = {"404"} /\ t[e].last.retries = 0) =>
              t[e].last.gets = 1 /\ t[e].last.sleeps = <<>>

\* a call has ended on a 404 at its first attempt
C14_Witness ==
    \E e \in Entries :
        /\ t[e].last.statuses = {"404"} /\ t[e].last.res = "failed"
        /\ t[e].last.gets = 1 /\ t[e].last.retries = 0

\* task e takes a step of an upload_file call
UploadStep(e) == t[e].inv.upc # "none" /\ t'[e] # t[e]

FilesOf(e) == store[DatasetId(catalog[e])].files

\* the step is the return of the call from an upload answered 200
ReturnsUploaded(e) == t[e].inv.upc = "put" /\ t'[e].last.res = "uploaded"

\* C15 (as stated): a step of an upload_file call changes the files of the
\* artifact only when the call returns from an upload answered 200, and then by
\* adding the normalized path; nothing is removed, whatever the path.
C15_OnlyAddsItsPath ==
    [][\A e \in Entries :
         UploadStep(e) =>
            FilesOf(e)' = IF ReturnsUploaded(e)
                          THEN FilesOf(e) \cup {t[e].inv.path}
                          ELSE FilesOf(e)]_vars

\* C15 (amended): the same, but for a path given as a URL the call first
\* removes the file stored under that URL, when get_file finds one and
\* remove_file returns; no other file is removed.
C15_AddsItsPathRemovesUrlName ==
    [][\A e \in Entries :
         UploadStep(e) =>
            CASE ReturnsUploaded(e) ->
                   FilesOf(e)' = FilesOf(e) \cup {t[e].inv.path}
              [] t[e].inv.upc = "url_remove" ->
                   /\ t[e].inv.isUrl /\ t[e].inv.urlname # t[e].inv.path
                   /\ FilesOf(e)' \in {FilesOf(e), FilesOf(e) \ {t[e].inv.urlname}}
              [] OTHER -> FilesOf(e)' = FilesOf(e)]_vars

\* a call on a URL has removed the file stored under the URL and has then
\* uploaded the file under its name
C15_Witness ==
    \E e \in Entries :
        /\ "remove_file" \in t[e].calls /\ t[e].last.res = "uploaded"
        /\ t[e].last.raw = catalog[e].rdf_source
        /\ t[e].last.raw \notin FilesOf(e)
        /\ LStripDotSlash(AfterLast(BeforeFirst(t[e].last.raw, "?"), "/")) \in FilesOf(e)

\* C16: the step in which commit raises ends the task as Failed without an
\* exception reaching gather, and leaves the store as it is: the files stay, the
\* record is not committed by it; the task makes no call afterwards.
C16_CommitFailureContained ==
    [][\A e \in Entries :
         /\ (t[e].pc = "commit" /\ t'[e].pc \notin {"commit", "cancelled"}) =>
               /\ t'[e].pc = "done" /\ batch' = batch
               /\ t'[e].calls = t[e].calls \cup {"commit"}
               /\ t'[e].outcome \in {"Committed", "Failed"}
               /\ t'[e].outcome = "Failed" => store' = store
         /\ t[e].pc = "done" => t'[e] = t[e]]_vars

\* a commit has failed on a record that holds uploaded files and stays staged
C16_Witness ==
    \E e \in Entries :
        /\ t[e].pc = "done" /\ t[e].outcome = "Failed" /\ "commit" \in t[e].calls
        /\ "PUT" \in t[e].calls /\ FilesOf(e) # {}
        /\ store[DatasetId(catalog[e])].staged
        /\ ~store[DatasetId(catalog[e])].committed
        /\ batch = "running"

\* C17 (as stated): two tasks that are both past the semaphore and have both
\* read their record work on different records: their dataset_id differ.
C17_DistinctRecords ==
    \A e1, e2 \in Entries :
        (/\ e1 # e2
         /\ Holding(t[e1]) /\ "read" \in t[e1].calls
         /\ Holding(t[e2]) /\ "read" \in t[e2].calls)
            => DatasetId(catalog[e1]) # DatasetId(catalog[e2])

\* the paths upload_files hands to upload_file and the name of the manifest
\* document, stripped, the empty ones left out
Enumerated(e) ==
    {LStripDotSlash(f) :
        f \in {g \in {Plan(e)[i].path : i \in 1..Len(Plan(e))}
                       \cup {AfterLast(catalog[e].rdf_source, "/")} : g # Empty}}

\* the verification pass of task e has begun
Verifying(e) ==
    /\ t[e].found = "found" /\ flags.verify_files
    /\ t[e].pc \in {"verify", "reupload", "create", "rdf", "files", "commit", "done"}

NoDuplicates(s) == Cardinality(Range(s)) = Len(s)

\* C18: the verification pass counts as total_files the distinct stripped paths
\* of the enumerated files and the manifest document; it probes each of them
\* once; missing_files counts the probed paths whose probe raised, among them
\* every path that is not at the destination; upload_file is then called for
\* the missing paths, one after the other, and for no other path.
C18_VerifyCountsAndReuploads ==
    \A e \in Entries :
        Verifying(e) =>
            LET v == t[e].ver
            IN  /\ v.total = Cardinality(Enumerated(e))
                /\ v.remaining \subseteq Enumerated(e)
                /\ Range(v.missing) \subseteq Enumerated(e) \ v.remaining
                /\ NoDuplicates(v.missing)
                /\ "PUT" \notin t[e].calls =>
                      (Enumerated(e) \ v.remaining) \ FilesOf(e) \subseteq Range(v.missing)
                /\ t[e].pc = "verify" <=> v.remaining # {}
                /\ t[e].pc = "verify" => v.mi = 0 /\ t[e].inv = NoFrame
                /\ t[e].pc = "reupload" =>
                      /\ v.mi \in 1..Len(v.missing)
                      /\ t[e].inv.raw = v.missing[v.mi]
                /\ t[e].pc \notin {"verify", "reupload"} => v.mi = Len(v.missing)

\* a pass over two expected paths has re-uploaded what it found missing
C18_Witness ==
    \E e \in Entries :
        /\ Verifying(e) /\ t[e].pc = "done"
        /\ t[e].ver.total = 2 /\ Len(t[e].ver.missing) = 2
        /\ t[e].ver.mi = 2 /\ "PUT" \in t[e].calls

\* task e takes a step of its verification pass
VerifyStep(e) == t[e].pc \in {"verify", "reupload"} /\ t'[e] # t[e]

\* C19 (as stated): no step of the verification pass calls remove_file, and
\* none takes a file away from the artifact.
C19_VerifyOnlyAdds ==
    [][\A e \in Entries :
         VerifyStep(e) =>
            /\ FilesOf(e) \subseteq FilesOf(e)'
            /\ "remove_file" \notin t'[e].calls]_vars

\* C20 (as stated): a re-upload of the verification pass that failed has left a
\* failure string for its path in the issues.
C20_FailedReuploadIsAnIssue ==
    \A e \in Entries :
        (/\ Verifying(e) /\ t[e].creates = 0 /\ t[e].pc # "create"
         /\ t[e].last.res \in {"failed", "raise"})
            => Issue("Failed to re-upload", t[e].last.raw) \in Range(t[e].ver.issues)

\* the strings line 326 appends for the paths found missing, in their order
MissingIssues(missing) ==
    [i \in 1..Len(missing) |-> [prefix |-> "Missing file", path |-> missing[i]]]

\* the verification pass of task e has returned
Verified(e) ==
    /\ Verifying(e) /\ t[e].pc \notin {"verify", "reupload"}
    /\ t[e].creates = 0 /\ t[e].pc # "create"

\* C21 (as stated): a pass that found one file missing and re-uploaded it
\* returns an empty issues list.
C21_NoIssuesAfterReupload ==
    \A e \in Entries :
        (/\ Verified(e) /\ Len(t[e].ver.missing) = 1
         /\ t[e].last.raw = t[e].ver.missing[1] /\ t[e].last.res = "uploaded")
            => t[e].ver.issues = <<>>

\* C21 (amended): the issues begin with one "Missing file" string for every
\* path found missing, in the order of missing_files; what follows are
\* "Failed to re-upload" strings for missing paths already handed to
\* upload_file.  A pass that found one file missing and whose re-upload returned
\* has missing_files = 1, has made one upload_file call and has exactly the one
\* "Missing file" string in its issues.
C21_MissingFilesAreIssues ==
    \A e \in Entries :
        Verifying(e) =>
            LET v == t[e].ver
                n == Len(v.missing)
            IN  /\ Len(v.issues) >= n
                /\ SubSeq(v.issues, 1, n) = MissingIssues(v.missing)
                /\ \A k \in (n + 1)..Len(v.issues) :
                      /\ v.issues[k].prefix = "Failed to re-upload"
                      /\ \E i \in 1..v.mi : v.issues[k].path = v.missing[i]
                /\ (/\ Verified(e) /\ n = 1
                    /\ t[e].last.res \in {"uploaded", "present", "failed"})
                      => /\ v.mi = 1 /\ t[e].last.raw = v.missing[1]
                         /\ t[e].last.before.res = "none"
                         /\ v.issues = <<[prefix |-> "Missing file", path |-> v.missing[1]]>>

\* a pass has found one file missing, has uploaded it, and has returned
C21_Witness ==
    \E e \in Entries :
        /\ Verified(e) /\ t[e].pc = "done" /\ Len(t[e].ver.missing) = 1
        /\ t[e].last.res = "uploaded" /\ t[e].last.raw = t[e].ver.missing[1]
        /\ t[e].ver.missing[1] \in FilesOf(e)
        /\ Len(t[e].ver.issues) = 1

-----------------------------------------------------------------------------
(* Enumeration and path normalisation: the run from its start, one entry   *)
(* whose manifest uses every form of file reference, migrated again or     *)
(* verified, on a store and a source that answer every call.               *)

RequiredEnv ==
    {"S3_ENDPOINT_URL", "S3_ACCESS_KEY_ID", "S3_SECRET_ACCESS_KEY",
     "SANDBOX_ZENODO_ACCESS_TOKEN", "ZENODO_ACCESS_TOKEN"}

\* faulty variant: the environment is not looked at
EnvironmentUnchecked(unset) == TRUE

\* lines 390-394: every required value is set and not empty
EnvironmentComplete(unset) == unset \cap RequiredEnv = {}

\* lines 370-453: migrate_collection before it creates the semaphore and the
\* tasks: the assertions on the environment, then the collection record
\* (read, and edit or create), any of which ends the run when it raises
Startup ==
    /\ batch = "startup"
    /\ \E r \in StoreCall :
         batch' = IF EnvironmentComplete(env.unset) /\ r = "ok" THEN "running" ELSE "aborted"
    /\ UNCHANGED <<flags, env, catalog, store, permits, t>>

\* "./README.md"
DotReadme == <<".", "/">> \o Readme

\* ".hidden/x.npy"
HiddenNpy == <<".", "hidden", "/", "x", ".", "npy">>

\* "../a.png"
ParentPng == <<".", ".", "/", "a", ".", "png">>

\* "a.thumbnail.png"
ThumbPng == <<"a", ".", "thumbnail", ".", "png">>

\* "a.png"
APng == <<"a", ".", "png">>

\* "dir/w.pt"
WeightsPt == <<"dir", "/", "w", ".", "pt">>

\* "w.pt"
NamePt == <<"w", ".", "pt">>

\* "arch.py"
ArchPy == <<"arch", ".", "py">>

\* "arch.py:Net"
ArchStr == ArchPy \o <<":", "Net">>

\* "env.yaml"
EnvYaml == <<"env", ".", "yaml">>

\* "conda:env.yaml"
DepsStr == <<"conda", ":">> \o EnvYaml

\* "http://h/env.yaml"
EnvUrl == <<"http", ":", "/", "/", "h", "/">> \o EnvYaml

\* "conda:http://h/env.yaml"
DepsUrl == <<"conda", ":">> \o EnvUrl

\* a weights entry that is null
NullWeight ==
    [present |-> FALSE, source |-> Empty,
     architecture |-> NoVariant, dependencies |-> NoVariant]

Attachment(source) == [isStr |-> TRUE, source |-> source]

\* paths with leading dots, a thumbnail cover, test and sample tensors
ItemP == [nickname |-> <<"pike">>, id |-> <<"z", "/", "6">>,
          rdf_source |-> RdfUrl("6"),
          manifest |-> [EmptyManifest EXCEPT
                           !.documentation = DotReadme,
                           !.covers = <<ThumbPng, ParentPng>>,
                           !.inputs = <<Tensor(HiddenNpy, Empty)>>,
                           !.test_outputs = <<CoverPng>>]]

\* a weights file that is also an attachment, an attachment whose name is a
\* part of the weights source, string architecture and dependencies, a null entry
ItemW == [nickname |-> <<"wolf">>, id |-> <<"z", "/", "7">>,
          rdf_source |-> RdfUrl("7"),
          manifest |-> [EmptyManifest EXCEPT
                           !.attachments = <<Attachment(WeightsPt), Attachment(NamePt)>>,
                           !.weights = <<NullWeight,
                                         WeightEntry(WeightsPt, Variant("str", ArchStr),
                                                     Variant("str", DepsStr))>>]]

\* object architecture and dependencies, and dependencies given as
\* manager:URL
ItemX == [nickname |-> <<"lynx">>, id |-> <<"z", "/", "8">>,
          rdf_source |-> RdfUrl("8"),
          manifest |-> [EmptyManifest EXCEPT
                           !.weights = <<WeightEntry(WeightsPt, Variant("obj", ArchPy),
                                                     Variant("str", DepsUrl)),
                                         WeightEntry(NamePt, NoVariant,
                                                     Variant("obj", EnvYaml))>>,
                           !.sample_inputs = <<CoverPng>>]]

\* the name under which upload_file stores the file it is called with
StoredUnder(raw) == NewFrame(raw, 0).path

\* the names under which a migration of the item stores its files
MigrationNames(item) ==
    {StoredUnder(p) :
        p \in {item.rdf_source}
              \cup {UploadFilesPlan(ManifestOf(item))[i].path :
                       i \in 1..Len(UploadFilesPlan(ManifestOf(item)))}}

\* the record a migration of the item left, at most MaxMissing files missing
FileRecords(item) ==
    {[exists |-> TRUE, staged |-> FALSE, committed |-> TRUE,
      files |-> MigrationNames(item) \ lost] :
        lost \in {L \in SUBSET MigrationNames(item) : Cardinality(L) <= MaxMissing}}

\* migrate_collection has been called
Entered ==
    /\ permits = CONCURENT_TASKS
    /\ batch = "startup"
    /\ t = [e \in 1..Len(catalog) |-> NewTask]

InitFiles ==
    /\ flags \in {[ScriptFlags EXCEPT !.skip_migrated = FALSE],
                  [ScriptFlags EXCEPT !.verify_files = TRUE]}
    /\ \E unset \in SUBSET RequiredEnv :
         env = [store_errors |-> FALSE, source_errors |-> FALSE, unset |-> unset]
    /\ catalog \in {<<ItemP>>, <<ItemW>>, <<ItemX>>, <<ItemU>>}
    /\ store \in [Ids(catalog) -> {NoRecord} \cup FileRecords(catalog[1])]
    /\ Entered

NextFiles ==
    \/ Startup
    \/ \E e \in Entries : Acquire(e)
    \/ \E e \in Entries : DownloadManifest(e)
    \/ \E e \in Entries : ReadArtifact(e)
    \/ \E e \in Entries : VerifyProbe(e)
    \/ \E e \in Entries : CreateArtifact(e)
    \/ \E e \in Entries : UrlGetFile(e)
    \/ \E e \in Entries : UrlRemoveFile(e)
    \/ \E e \in Entries : ProbeFile(e)
    \/ \E e \in Entries : PutFile(e)
    \/ \E e \in Entries : GetSource(e)
    \/ \E e \in Entries : PutUpload(e)
    \/ \E e \in Entries : CommitArtifact(e)
    \/ Complete

SpecFiles == InitFiles /\ [][NextFiles]_vars

-----------------------------------------------------------------------------
(* Claims on the start of the run, the enumeration and the normalisation   *)

\* C22: in a run with a required environment value missing no task is ever
\* scheduled: the run is starting or has ended with the assertion, no task has
\* taken the semaphore, and no task has made any call (manifest fetch, read,
\* create, put_file, commit or any other).
C22_NoTaskWithoutEnvironment ==
    (env.unset \cap RequiredEnv # {}) =>
        /\ batch \in {"startup", "aborted"}
        /\ permits = CONCURENT_TASKS
        /\ \A e \in Entries : t[e] = NewTask /\ t[e].calls = {}

\* a run with one value missing has ended at its start, the destination
\* holding an earlier record of the entry
C22_Witness ==
    /\ env.unset = {"ZENODO_ACCESS_TOKEN"} /\ batch = "aborted"
    /\ \E e \in Entries : store[DatasetId(catalog[e])].exists /\ t[e].pc = "wait"

-----------------------------------------------------------------------------
(* The script's run over two entries, scheduled as the event loop schedules *)
(* it: a task that can take a step takes one, every await returns or raises *)
(* (the store and the source answer or time out), and the retry loop of     *)
(* upload_file is bounded by max_retries.                                   *)

NextLive ==
    \/ \E e \in Entries : Acquire(e)
    \/ \E e \in Entries : DownloadManifest(e)
    \/ \E e \in Entries : ReadArtifact(e)
    \/ \E e \in Entries : CreateArtifact(e)
    \/ \E e \in Entries : UrlGetFile(e)
    \/ \E e \in Entries : ProbeFile(e)
    \/ \E e \in Entries : PutFile(e)
    \/ \E e \in Entries : GetSource(e)
    \/ \E e \in Entries : PutUpload(e)
    \/ \E e \in Entries : CommitArtifact(e)
    \/ CancelAll
    \/ Complete

SpecLive == InitPair /\ [][NextLive]_vars /\ WF_vars(NextLive)

\* line 560 has been reached: "Migration completed." is logged
SummaryEmitted == batch = "completed"

\* C23 (as stated): every run whose tasks were scheduled eventually emits the
\* final summary, whatever failed in its entries.
C23_SummaryAlwaysEmitted == <>SummaryEmitted

\* C24 (as stated): normalisation removes one leading "./" and nothing else:
\* the path an upload_file call works on, and every path the verification pass
\* expects, is the path it was given without its "./" prefix, and is the path
\* itself when it does not begin with "./".
C24_StripsOneLeadingDotSlash ==
    LET StripOnce(s) == IF IsPrefix(<<".", "/">>, s) THEN SubSeq(s, 3, Len(s)) ELSE s
    IN  \A e \in Entries :
            /\ (t[e].inv.upc # "none" /\ ~StartsWithHttp(t[e].inv.raw))
                  => t[e].inv.path = StripOnce(t[e].inv.raw)
            /\ t[e].pc = "verify"
                  => t[e].ver.remaining \subseteq
                        {StripOnce(f) :
                            f \in Range(ExpectedList(ManifestOf(catalog[e]),
                                                     catalog[e].rdf_source)) \ {Empty}}

\* C25 (as stated): the verification pass probes a file named by a URL under
\* its trailing file name, as upload_file does: every path it is about to probe
\* is the name upload_file stores it under, and no path is counted as missing
\* while the file is stored under that name.
C25_UrlCollapsedBeforeProbe ==
    \A e \in Entries :
        (Verifying(e) /\ t[e].calls \cap (Transfers \cup {"remove_file"}) = {})
            => /\ \A f \in t[e].ver.remaining : f = StoredUnder(f)
               /\ \A i \in 1..Len(t[e].ver.missing) :
                     StoredUnder(t[e].ver.missing[i]) \notin FilesOf(e)

\* C26 (as stated): a file of the enumeration is uploaded only when the record
\* does not hold it yet, and the download weight it is uploaded with is the
\* weight of the last upload_file call of the enumeration that names it.
C26_StoredOnceWithLastWeight ==
    [][\A e \in Entries :
         (t[e].pc = "files" /\ ReturnsUploaded(e)) =>
            LET plan == Plan(e)
                rules == {i \in 1..Len(plan) : StoredUnder(plan[i].path) = t[e].inv.path}
                last == CHOOSE k \in rules : \A j \in rules : j <= k
            IN  /\ t[e].inv.path \notin FilesOf(e)
                /\ t[e].inv.w = plan[last].w]_vars

\* C27 (as stated): a re-upload of the verification pass has download weight 1
\* exactly when its path is the stripped source of a weights entry that is not
\* null.
C27_WeightOneIffWeightsSource ==
    \A e \in Entries :
        (t[e].pc = "reupload" /\ t[e].inv.upc # "none") =>
            (t[e].inv.w = 1 <=>
                \E i \in 1..Len(ManifestOf(catalog[e]).weights) :
                    /\ ManifestOf(catalog[e]).weights[i].present
                    /\ LStripDotSlash(ManifestOf(catalog[e]).weights[i].source) = t[e].inv.raw)

\* C28: for one manifest, the paths the verification pass expects and the
\* paths the migration hands to upload_file (the manifest document and every
\* call of upload_files) are the same set after normalisation, that is, once
\* each is replaced by the name upload_file stores it under; the pass probes
\* no path outside that set and counts as many paths as the set has.
C28_SameFilesAfterNormalisation ==
    \A e \in Entries :
        Verifying(e) =>
            LET expected == ExpectedFiles(ManifestOf(catalog[e]), catalog[e].rdf_source)
            IN  /\ {StoredUnder(f) : f \in expected} = MigrationNames(catalog[e])
                /\ {StoredUnder(f) : f \in t[e].ver.remaining \cup Range(t[e].ver.missing)}
                      \subseteq MigrationNames(catalog[e])
                /\ t[e].ver.total = Cardinality(MigrationNames(catalog[e]))

\* a verification pass has ended on a manifest with documentation, a thumbnail
\* cover, a tensor and a test list: six files with the manifest document
C28_Witness ==
    \E e \in Entries :
        /\ Verifying(e) /\ t[e].pc = "done" /\ t[e].ver.total = 6
        /\ Len(Plan(e)) = 6 /\ ManifestOf(catalog[e]).test_outputs # <<>>

\* C29: a cover that holds the marker ".thumbnail." is enumerated twice, as
\* itself and then as the path with the marker replaced by "." (the marker
\* removed), by upload_files and by the verification pass; "a.thumbnail.png"
\* yields "a.png"; a cover without the marker is enumerated once, and nothing
\* is derived from it.
C29_ThumbnailYieldsVariant ==
    \A e \in Entries :
        LET m == ManifestOf(catalog[e])
            paths == [i \in 1..Len(Plan(e)) |-> Plan(e)[i].path]
        IN  /\ \A k \in 1..Len(m.covers) :
                 LET c == m.covers[k]
                     out == CoverPaths(c)
                     marks == {i \in 1..(Len(c) - 2) :
                                  SubSeq(c, i, i + 2) = <<".", "thumbnail", ".">>}
                 IN  /\ IF marks = {}
                        THEN out = <<c>>
                        ELSE /\ Len(out) = 2 /\ out[1] = c /\ out[2] # c
                             /\ \A i \in marks :
                                   Cardinality(marks) = 1 =>
                                      out[2] = SubSeq(c, 1, i - 1) \o <<".">>
                                                  \o SubSeq(c, i + 3, Len(c))
                     /\ Range(out) \subseteq Range(paths)
                     /\ Range(out) \subseteq
                           Range(ExpectedList(m, catalog[e].rdf_source))
            /\ m.covers = <<ThumbPng, ParentPng>> /\ m.attachments = <<>> =>
                  SubSeq(paths, 2, 4) = <<ThumbPng, APng, ParentPng>>
            /\ m.covers = <<UrlCover>> => paths = <<UrlCover>>
            /\ (t[e].pc = "files" /\ t[e].inv.raw = APng /\ t[e].fi = 3) =>
                  t[e].prev.raw = ThumbPng

\* upload_files has uploaded the thumbnail cover and then its variant
C29_Witness ==
    \E e \in Entries :
        /\ t[e].pc = "files" /\ t[e].fi = 4
        /\ t[e].last.raw = APng /\ t[e].last.res = "uploaded"
        /\ t[e].last.before.raw = ThumbPng /\ t[e].last.before.res = "uploaded"
        /\ {ThumbPng, APng} \subseteq FilesOf(e)

\* C30 (as stated): a weights entry that is not null yields, in this order, its
\* architecture reference (a string: the part before the first ":"; an object:
\* its source), its own source with weight 1, and its dependencies reference (a
\* string: everything after the first ":"; an object: its source); upload_files
\* makes these calls.
C30_WeightsReferences ==
    \A e \in Entries :
        \A i \in 1..Len(ManifestOf(catalog[e]).weights) :
            LET f == ManifestOf(catalog[e]).weights[i]
                a == f.architecture
                d == f.dependencies
                arch == IF a.kind = "str" THEN <<File(BeforeFirst(a.val, ":"), 0)>>
                        ELSE IF a.kind = "obj" /\ a.val # Empty THEN <<File(a.val, 0)>>
                        ELSE <<>>
                deps == IF d.kind = "str" /\ d.val # Empty
                          THEN <<File(SubSeq(d.val, FirstPos(d.val, ":") + 1, Len(d.val)), 0)>>
                        ELSE IF d.kind = "obj" THEN <<File(d.val, 0)>>
                        ELSE <<>>
            IN  f.present =>
                   /\ WeightFiles(f) = arch \o <<File(f.source, 1)>> \o deps
                   /\ Range(arch \o <<File(f.source, 1)>> \o deps) \subseteq Range(Plan(e))

-----------------------------------------------------------------------------
(* Outbound connections: the script's run over just enough entries for the *)
(* connections to outnumber the semaphore slots, verifying records that    *)
(* lack their manifest document, store and source answering every call.    *)

\* faulty variant: the download stream stays open after upload_file has returned
ConnectionsLeaked(tr) ==
    IF tr.pc = "manifest" THEN 1
    ELSE IF "GET" \in tr.calls THEN 2
    ELSE 0

\* open HTTP connections of one task: the GET of download_manifest (77-78);
\* in upload_file the source GET (150), and during the upload PUT (155) both
\* the source stream, which feeds it, and the PUT itself; each request has a
\* connection of its own ("Connection: close")
Connections(tr) ==
    IF tr.pc = "manifest" THEN 1
    ELSE IF tr.pc \in InUpload /\ tr.inv.upc = "get" THEN 1
    ELSE IF tr.pc \in InUpload /\ tr.inv.upc = "put" THEN 2
    ELSE 0

RECURSIVE Sum(_)
Sum(s) == IF Len(s) = 0 THEN 0 ELSE Head(s) + Sum(Tail(s))

OpenConnections == Sum([e \in Entries |-> Connections(t[e])])

ConnCatalog == [n \in 1..(CONCURENT_TASKS \div 2 + 1) |-> CapItem(n)]

\* every record exists but lacks its manifest document, and the run verifies
InitConn ==
    /\ flags = [ScriptFlags EXCEPT !.verify_files = TRUE]
    /\ env = [store_errors |-> FALSE, source_errors |-> FALSE]
    /\ catalog = ConnCatalog
    /\ store = [id \in Ids(catalog) |->
                  [exists |-> TRUE, staged |-> FALSE, committed |-> TRUE, files |-> {}]]
    /\ Started

NextConn ==
    \/ \E e \in Entries : Acquire(e)
    \/ \E e \in Entries : DownloadManifest(e)
    \/ \E e \in Entries : ReadArtifact(e)
    \/ \E e \in Entries : VerifyProbe(e)
    \/ \E e \in Entries : ProbeFile(e)
    \/ \E e \in Entries : PutFile(e)
    \/ \E e \in Entries : GetSource(e)
    \/ \E e \in Entries : PutUpload(e)
    \/ Complete

SpecConn == InitConn /\ [][NextConn]_vars

-----------------------------------------------------------------------------
(* Claims on connections, manifest failures, purity, slots and retries *)

-----------------------------------------------------------------------------
(* The script's run over two entries onto an empty destination, the source *)
(* failing in every way, the store answering every call.                    *)

InitFetch ==
    /\ flags = ScriptFlags
    /\ env = [store_errors |-> FALSE, source_errors |-> TRUE]
    /\ catalog = <<ItemB, ItemD>>
    /\ store = [id \in Ids(catalog) |-> NoRecord]
    /\ Started

NextFetch ==
    \/ \E e \in Entries : Acquire(e)
    \/ \E e \in Entries : DownloadManifest(e)
    \/ \E e \in Entries : ReadArtifact(e)
    \/ \E e \in Entries : CreateArtifact(e)
    \/ \E e \in Entries : UrlGetFile(e)
    \/ \E e \in Entries : ProbeFile(e)
    \/ \E e \in Entries : PutFile(e)
    \/ \E e \in Entries : GetSource(e)
    \/ \E e \in Entries : PutUpload(e)
    \/ \E e \in Entries : CommitArtifact(e)
    \/ Complete

SpecFetch == InitFetch /\ [][NextFetch]_vars

Reverse(s) == [i \in 1..Len(s) |-> s[Len(s) + 1 - i]]

\* the same manifest with every list and the weights dict iterated backwards
Reordered(m) ==
    [m EXCEPT !.covers = Reverse(@), !.attachments = Reverse(@),
              !.weights = Reverse(@), !.inputs = Reverse(@), !.outputs = Reverse(@),
              !.sample_inputs = Reverse(@), !.sample_outputs = Reverse(@),
              !.test_inputs = Reverse(@), !.test_outputs = Reverse(@)]

\* C33: the set a verification pass expects is the one set the manifest and
\* the manifest-document URL determine: for every state of the destination and
\* every earlier run it is the set enumerated from the manifest, and the same
\* set is enumerated when the manifest's lists and weights are iterated in the
\* opposite order; the pass counts and probes that set whatever the order in
\* which it takes the paths.
C33_EnumerationIsPure ==
    \A e \in Entries :
        LET m == ManifestOf(catalog[e])
            set == ExpectedFiles(Reordered(m), catalog[e].rdf_source)
        IN  /\ ExpectedFiles(m, catalog[e].rdf_source) = set
            /\ Verifying(e) =>
                  /\ t[e].ver.total = Cardinality(set)
                  /\ t[e].ver.remaining \cup Range(t[e].ver.missing) \subseteq set
                  /\ (t[e].pc = "verify" /\ "get_file" \notin t[e].calls)
                        => t[e].ver.remaining = set

\* a pass begins on a manifest with two weights entries whose record lacks a
\* file: all of the expected set is still to be probed
C33_Witness ==
    \E e \in Entries :
        /\ t[e].pc = "verify" /\ "get_file" \notin t[e].calls
        /\ Len(ManifestOf(catalog[e]).weights) = 2
        /\ Reordered(ManifestOf(catalog[e])) # ManifestOf(catalog[e])
        /\ Cardinality(t[e].ver.remaining) = t[e].ver.total
        /\ FilesOf(e) # MigrationNames(catalog[e])

\* C34 (as stated): a task that ends gives its slot back in the same step, and
\* an entry that waits for a slot leaves the wait only by taking one: no entry
\* ends without ever having held a slot.
C34_EveryEntryGetsASlot ==
    [][\A e \in Entries :
         /\ (Holding(t[e]) /\ t'[e].pc \in Ended) => permits' > permits
         /\ t[e].pc = "wait" => t'[e].pc \in {"wait", "manifest"}]_vars

-----------------------------------------------------------------------------
(* C35: one upload_file call is bounded *)

\* the upload_file calls to look at: the one in progress and the one that has
\* just returned
UploadCalls == {t[e].inv : e \in Entries} \cup
               {[f \in DOMAIN NoFrame |-> IF f \in DOMAIN NoLast THEN t[e].last[f]
                                          ELSE NoFrame[f]] : e \in Entries}

\* C35 (as stated): whatever the source and the store answer, one upload_file
\* call makes at most max_retries download attempts, asks put_file for the
\* upload URL at most once, and has at most one upload PUT answered 200; an
\* attempt that raised is counted, and none is made after the last one.
C35_UploadFileIsBounded ==
    \A c \in UploadCalls :
        /\ c.gets <= max_retries
        /\ c.retries <= c.gets
        /\ c.retries <= max_retries
        /\ c.putfiles <= 1
        /\ c.uploads <= 1
        /\ c.gets > 0 => c.putfiles = 1

\* a call that used every attempt, the last of which uploaded the file
C35_Witness ==
    \E e \in Entries :
        /\ t[e].last.gets = max_retries
        /\ t[e].last.retries = max_retries - 1
        /\ t[e].last.putfiles = 1
        /\ t[e].last.uploads = 1
        /\ t[e].last.res = "uploaded"

-----------------------------------------------------------------------------
(* C36: reset_stats needs the operator's confirmation *)

\* what the operator may type at the prompt of line 362
Typed == {"reset-stats", "reset-stats ", "Reset-Stats", "yes", ""}

\* the prompt is shown only when reset_stats was requested (349)
Prompted(requested) == IF requested THEN Typed ELSE {"not asked"}

\* two entries, migrated with every combination of skip_migrated, edit_existing
\* and reset_stats and every answer to the prompt, on a destination where each
\* record is absent or complete; the store may fail.  The request and the
\* answer are kept beside the flags the tasks read.
InitReset ==
    /\ \E requested \in {f \in AllFlags : ~f.verify_files} :
       \E confirmation \in Prompted(requested.reset_stats) :
         flags = [skip_migrated |-> requested.skip_migrated,
                  edit_existing |-> requested.edit_existing,
                  reset_stats |-> Confirmed(requested.reset_stats, confirmation),
                  verify_files |-> FALSE,
                  requested |-> requested.reset_stats,
                  confirmation |-> confirmation]
    /\ env = [store_errors |-> TRUE, source_errors |-> FALSE]
    /\ catalog = <<ItemB, ItemD>>
    /\ store \in [Ids(catalog) -> {NoRecord}] \cup
                 {[id \in Ids(catalog) |-> Migrated(catalog, id)]}
    /\ Started

NextReset ==
    \/ \E e \in Entries : Acquire(e)
    \/ \E e \in Entries : DownloadManifest(e)
    \/ \E e \in Entries : ReadArtifact(e)
    \/ \E e \in Entries : ResetStats(e)
    \/ \E e \in Entries : EditArtifact(e)
    \/ \E e \in Entries : CreateArtifact(e)
    \/ \E e \in Entries : UrlGetFile(e)
    \/ \E e \in Entries : ProbeFile(e)
    \/ \E e \in Entries : PutFile(e)
    \/ \E e \in Entries : GetSource(e)
    \/ \E e \in Entries : PutUpload(e)
    \/ \E e \in Entries : CommitArtifact(e)
    \/ CancelAll
    \/ Complete

SpecReset == InitReset /\ [][NextReset]_vars

\* C36 (as stated): a task calls reset_stats only when reset_stats was requested
\* and the operator typed exactly "reset-stats", and only after its read found
\* the record, which therefore exists; with any other answer no task of the run
\* calls it.
C36_ResetOnlyWhenConfirmed ==
    /\ \A e \in Entries :
         "reset_stats" \in t[e].calls =>
            /\ flags.requested
            /\ flags.confirmation = "reset-stats"
            /\ t[e].found = "found"
            /\ store[DatasetId(catalog[e])].exists
    /\ flags.confirmation # "reset-stats" =>
          \A e \in Entries : "reset_stats" \notin t[e].calls /\ t[e].pc # "reset"

\* both cases: a confirmed run in which a task has reset the stats of its record,
\* while the other task's read failed and it makes no such call
C36_Witness ==
    /\ flags.confirmation = "reset-stats"
    /\ \E e \in Entries : "reset_stats" \in t[e].calls /\ t[e].pc \in Ended
    /\ \E e \in Entries : t[e].found = "absent" /\ "create" \in t[e].calls
                          /\ store[DatasetId(catalog[e])].exists

-----------------------------------------------------------------------------
(* scripts/publish_to_zenodo.py.  The same variables hold the state of this   *)
(* script: flags are its arguments, catalog is artifacts_list, store is the   *)
(* set of artifacts published at the target, permits is its semaphore, t are  *)
(* its tasks and batch is publish_collection_to_zenodo with its four counts.  *)

CONCURRENT_TASKS == 8

\* str.lower() on the letters aliases and filters are written with
LowerChar(c) ==
    CASE c = "U" -> "u" [] c = "N" -> "n" [] c = "A" -> "a" [] OTHER -> c

Lower(s) == [i \in DOMAIN s |-> LowerChar(s[i])]

\* a key the dict does not have
NoKey == <<"<missing>">>

\* artifact.get("alias", "N/A")
AliasOrNA(artifact) == IF artifact.alias = NoKey THEN <<"N", "/", "A">> ELSE artifact.alias

\* lines 62-65: a filter is given (not None, not "") and is no substring of the
\* alias, both in lower case
FilteredOut(artifact_filter, artifact_alias) ==
    /\ artifact_filter # Empty
    /\ ~Contains(Lower(artifact_alias), Lower(artifact_filter))

\* what a task returns: the dict's processed and published, its reason ("none"
\* when the key is absent) and its error (NoKey when absent, else the message)
ZResult(processed, published, reason, error) ==
    [processed |-> processed, published |-> published, reason |-> reason, error |-> error]

NoResult == ZResult(FALSE, FALSE, "pending", NoKey)

\* lines 152-162: the handler's result for exception e; str(e) is its message
Caught(message) == ZResult(TRUE, FALSE, "none", <<message>>)

\* faulty variant: a dry run that goes on to publish
CheckedIgnoringDryRun(artifact, artifact_filter, dry_run) ==
    [next |-> "publish", result |-> NoResult]

\* lines 56-131: from the answer of read to the publish call: the result the
\* task returns before it, or "publish".  artifact.alias (128) raises on an
\* artifact without the key, artifact.get('versions', [{}])[0] (138) on an
\* empty list; both are caught at 152.
Checked(artifact, artifact_filter, dry_run) ==
    CASE FilteredOut(artifact_filter, AliasOrNA(artifact)) ->
           [next |-> "returned", result |-> ZResult(FALSE, FALSE, "filtered", NoKey)]
      [] OTHER ->
    CASE artifact.name = "" ->
           [next |-> "returned", result |-> ZResult(TRUE, FALSE, "missing_name", NoKey)]
      [] artifact.name # "" /\ artifact.description = "" ->
           [next |-> "returned", result |-> ZResult(TRUE, FALSE, "missing_description", NoKey)]
      [] OTHER ->
    CASE dry_run ->
           [next |-> "returned", result |-> ZResult(TRUE, TRUE, "dry_run", NoKey)]
      [] ~dry_run /\ artifact.alias = NoKey ->
           [next |-> "returned", result |-> Caught("alias")]
      [] ~dry_run /\ artifact.alias # NoKey /\ artifact.versions = "empty" ->
           [next |-> "returned", result |-> Caught("list index out of range")]
      [] OTHER -> [next |-> "publish", result |-> NoResult]

\* what a call of the artifact manager does: it answers, or it raises an
\* exception with a message or with none (str(e) = "")
ZOutcomes == {[ok |-> TRUE, message |-> ""]} \cup
             {[ok |-> FALSE, message |-> m] : m \in {"", "permission denied"}}

ZTask == [pc |-> "wait", result |-> NoResult, calls |-> {}, failed |-> FALSE]

\* line 52
ZenodoAcquire(e) ==
    /\ batch.phase = "gather"
    /\ t[e].pc = "wait"
    /\ \A e2 \in Entries : e2 < e => t[e2].pc # "wait"
    /\ Free(permits)
    /\ t' = [t EXCEPT ![e].pc = "read"]
    /\ permits' = permits - 1
    /\ UNCHANGED <<flags, env, catalog, store, batch>>

\* the task returns: `async with` gives the slot back
ZReturn(e, tr, result) == [tr EXCEPT !.pc = "returned", !.result = result]

\* lines 55-131: read answers or raises; then the filter, the required fields
\* and the dry run
ZenodoRead(e) ==
    /\ batch.phase = "gather"
    /\ t[e].pc = "read"
    /\ \E r \in ZOutcomes :
         LET tr == [t[e] EXCEPT !.calls = @ \cup {"read"}]
             c == Checked(catalog[e], flags.artifact_filter, flags.dry_run)
         IN  IF ~r.ok
             THEN /\ t' = [t EXCEPT ![e] = ZReturn(e, [tr EXCEPT !.failed = TRUE],
                                                   Caught(r.message))]
                  /\ permits' = permits + 1
             ELSE IF c.next = "publish"
             THEN /\ t' = [t EXCEPT ![e] = [tr EXCEPT !.pc = "publish"]]
                  /\ permits' = permits
             ELSE /\ t' = [t EXCEPT ![e] = ZReturn(e, [tr EXCEPT !.failed = c.result.error # NoKey],
                                                   c.result)]
                  /\ permits' = permits + 1
    /\ UNCHANGED <<flags, env, catalog, store, batch>>

\* lines 133-162: publish answers or raises
ZenodoPublish(e) ==
    /\ batch.phase = "gather"
    /\ t[e].pc = "publish"
    /\ \E r \in ZOutcomes :
         LET tr == [t[e] EXCEPT !.calls = @ \cup {"publish"}]
         IN  IF r.ok
             THEN /\ t' = [t EXCEPT ![e] = ZReturn(e, tr, ZResult(TRUE, TRUE, "none", NoKey))]
                  /\ store' = store \cup {catalog[e].id}
             ELSE /\ t' = [t EXCEPT ![e] = ZReturn(e, [tr EXCEPT !.failed = TRUE],
                                                   Caught(r.message))]
                  /\ store' = store
    /\ permits' = permits + 1
    /\ UNCHANGED <<flags, env, catalog, batch>>

\* dict.get(key) used as a condition on the error: the key is there and its
\* string is not empty
Truthy(error) == error # NoKey /\ error # <<"">>

IsProcessed(result) == result.processed

IsPublished(result) == result.processed /\ result.published

IsFiltered(result) == ~result.processed /\ result.reason = "filtered"

HasError(result) == Truthy(result.error)

\* lines 214-245: gather has every result; the counts of the summary
ZenodoTally ==
    /\ batch.phase = "gather"
    /\ \A e \in Entries : t[e].pc = "returned"
    /\ batch' = [phase |-> "completed",
                 processed_count |-> Cardinality({e \in Entries : IsProcessed(t[e].result)}),
                 published_count |-> Cardinality({e \in Entries : IsPublished(t[e].result)}),
                 filtered_count |-> Cardinality({e \in Entries : IsFiltered(t[e].result)}),
                 error_count |-> Cardinality({e \in Entries : HasError(t[e].result)})]
    /\ UNCHANGED <<flags, env, catalog, store, permits, t>>

MaxArtifacts == 2

Unet == <<"U", "n", "e", "t">>

\* the artifacts a collection may list: complete ones, one without a name, one
\* without a description, one without the alias key, one with no version
ZArtifact(alias, name, description, versions) ==
    [id |-> 0, alias |-> alias, name |-> name, description |-> description,
     versions |-> versions]

ZArtifacts ==
    {ZArtifact(Unet, "n", "d", "some"), ZArtifact(<<"c", "e", "l", "l">>, "n", "d", "some"),
     ZArtifact(Unet, "", "d", "some"), ZArtifact(Unet, "n", "", "some"),
     ZArtifact(NoKey, "n", "d", "some"), ZArtifact(Unet, "n", "d", "empty")}

\* --filter: not given, given in another case than the alias, given and matching
\* only the placeholder of a missing alias
ZFilters == {Empty, <<"u", "N", "e">>, <<"n", "/", "a">>}

\* lines 165-213: the arguments, the list the collection answered, the tasks
InitZenodo ==
    /\ flags \in [dry_run : BOOLEAN, artifact_filter : ZFilters]
    /\ env = [store_errors |-> TRUE, source_errors |-> FALSE]
    /\ \E n \in 1..MaxArtifacts : \E kinds \in [1..n -> ZArtifacts] :
         catalog = [e \in 1..n |-> [kinds[e] EXCEPT !.id = e]]
    /\ store = {}
    /\ permits = CONCURRENT_TASKS
    /\ batch = [phase |-> "gather", processed_count |-> 0, published_count |-> 0,
                filtered_count |-> 0, error_count |-> 0]
    /\ t = [e \in 1..Len(catalog) |-> ZTask]

NextZenodo ==
    \/ \E e \in Entries : ZenodoAcquire(e)
    \/ \E e \in Entries : ZenodoRead(e)
    \/ \E e \in Entries : ZenodoPublish(e)
    \/ ZenodoTally

SpecZenodo == InitZenodo /\ [][NextZenodo]_vars

\* C37 (as stated): publish is called for an artifact only in a run that is not
\* a dry run, when the alias matches the filter if one is given, and when the
\* manifest has a name and a description; a dry run publishes nothing.
C37_PublishOnlyWhenEligible ==
    /\ \A e \in Entries :
         (t[e].pc = "publish" \/ "publish" \in t[e].calls) =>
            /\ ~flags.dry_run
            /\ flags.artifact_filter # Empty =>
                  Contains(Lower(AliasOrNA(catalog[e])), Lower(flags.artifact_filter))
            /\ catalog[e].name # ""
            /\ catalog[e].description # ""
    /\ flags.dry_run => store = {}
    /\ \A id \in store : \E e \in Entries : catalog[e].id = id /\ "publish" \in t[e].calls

\* a run with a filter written in another case than the alias has published the
\* matching artifact and filtered another one out
C37_Witness ==
    /\ flags.artifact_filter = <<"u", "N", "e">>
    /\ \E e \in Entries : catalog[e].id \in store /\ catalog[e].alias = Unet
    /\ \E e \in Entries : t[e].result.reason = "filtered"


\* the artifacts whose read, preparation or publish raised
FailedArtifacts == {e \in Entries : t[e].failed}

\* C38 (as stated): a task whose read or publish failed still returns a result,
\* the other tasks go on, and the summary accounts for every artifact:
\* processed + filtered is the number of artifacts, published is at most
\* processed, and the error count is the number of failed artifacts.
C38_TallyAccountsForEveryArtifact ==
    /\ \A e \in Entries : t[e].pc = "returned" <=> t[e].result # NoResult
    /\ \A e \in Entries : t[e].failed => t[e].pc = "returned" /\ t[e].result.processed
    /\ batch.phase = "completed" =>
          /\ batch.processed_count + batch.filtered_count = Len(catalog)
          /\ batch.published_count <= batch.processed_count
          /\ batch.error_count = Cardinality(FailedArtifacts)

-----------------------------------------------------------------------------
(* public/colab_service.py, get_image with a local folder.  Here env is the   *)
(* folder, catalog is filenames, store is the artifact's input_images, and t  *)
(* is the one call of get_image that is in progress.                          *)

MaxImages == 3

\* str.lower() on the suffixes the folder's files have
LowerSuffix(ext) ==
    CASE ext = "TIF" -> "tif" [] ext = "PNG" -> "png" [] OTHER -> ext

\* lines 31-36
ImageFormat == {"jpeg", "jpg", "png", "tif", "tiff"}

\* the files a folder may hold: images named 1..MaxImages whose suffixes are
\* written in either case, and a file that is no image
SuffixOf(n) == <<"png", "TIF", "jpeg", "PNG">>[(n % 4) + 1]

FolderFiles == {[stem |-> n, ext |-> SuffixOf(n)] : n \in 1..MaxImages} \cup
               {[stem |-> 0, ext |-> "txt"]}

\* sorted(files): the paths in increasing order
RECURSIVE Sorted(_)
Sorted(files) ==
    IF files = {} THEN <<>>
    ELSE LET first == CHOOSE f \in files : \A g \in files : f.stem <= g.stem
         IN  <<first>> \o Sorted(files \ {first})

\* lines 39-58
list_image_files(image_folder) ==
    Sorted({f \in image_folder : LowerSuffix(f.ext) \in ImageFormat})

Max(a, b) == IF a >= b THEN a ELSE b

\* np.random.randint(high): any integer of [0, high)
RandInt(high) == 0..(high - 1)

\* line 170: the indices the selection may draw for a list of n files
Selectable(n) == RandInt(Max(n - 1, 1))

NoCall == [pc |-> "start", r |-> 0, image_name |-> 0, selected |-> FALSE]

\* lines 161-168: the folder is listed; an empty list raises ValueError
ListImageFiles ==
    /\ batch = "serving"
    /\ t.pc = "start"
    /\ catalog' = list_image_files(env)
    /\ t' = [t EXCEPT !.pc = IF catalog' = <<>> THEN "raised" ELSE "select"]
    /\ UNCHANGED <<flags, env, store, permits, batch>>

\* lines 170-184: the draw is r; the file at r is read (read_image may raise)
\* and named <stem>.png
SelectImage(r) ==
    /\ batch = "serving"
    /\ t.pc = "select"
    /\ r \in Selectable(Len(catalog))
    /\ \E readable \in BOOLEAN :
         t' = [pc |-> IF readable THEN "list_files" ELSE "raised",
               r |-> r, image_name |-> catalog[r + 1].stem, selected |-> TRUE]
    /\ UNCHANGED <<flags, env, catalog, store, permits, batch>>

\* lines 187-193: is the image in input_images?  An exception counts as no.
ListFiles ==
    /\ batch = "serving"
    /\ t.pc = "list_files"
    /\ \E r \in {"ok", "raise"} :
         LET image_exists == r = "ok" /\ t.image_name \in store
         IN  t' = [t EXCEPT !.pc = IF image_exists THEN "returned" ELSE "put_file"]
    /\ UNCHANGED <<flags, env, catalog, store, permits, batch>>

\* lines 195-200: put_file (not guarded), then the PUT, whose status is not read
UploadImage ==
    /\ batch = "serving"
    /\ t.pc = "put_file"
    /\ \E r \in {"ok", "raise", "rejected"} :
         /\ t' = [t EXCEPT !.pc = IF r = "raise" THEN "raised" ELSE "returned"]
         /\ store' = IF r = "ok" THEN store \cup {t.image_name} ELSE store
    /\ UNCHANGED <<flags, env, catalog, permits, batch>>

\* the service is called again
NextCall ==
    /\ batch = "serving"
    /\ t.pc \in {"returned", "raised"}
    /\ t' = NoCall
    /\ catalog' = <<>>
    /\ UNCHANGED <<flags, env, store, permits, batch>>

InitColab ==
    /\ flags = [use_local_folder |-> TRUE]
    /\ env \in SUBSET FolderFiles
    /\ catalog = <<>>
    /\ store = {}
    /\ permits = 0
    /\ batch = "serving"
    /\ t = NoCall

NextColab ==
    \/ ListImageFiles
    \/ \E r \in 0..MaxImages : SelectImage(r)
    \/ ListFiles
    \/ UploadImage
    \/ NextCall

SpecColab == InitColab /\ [][NextColab]_vars

\* C39 (as stated): when get_image draws its index, every file of the list,
\* the last one included, can be the one selected, and the index drawn is
\* within the list.
C39_EveryFileSelectable ==
    /\ t.pc = "select" => \A i \in 1..Len(catalog) : ENABLED SelectImage(i - 1)
    /\ t.selected => t.r \in 0..(Len(catalog) - 1)

====
